---- MODULE Spec2Model ----
(***************************************************************************)
(* PDF-Watermarker: the watermark service (services/pdfService.ts,         *)
(* applyWatermark) as a state machine.                                     *)
(*                                                                         *)
(* applyWatermark is an async function.  JavaScript runs the code between  *)
(* two awaits without interruption, so every action below is one such      *)
(* segment of one invocation: Call runs up to `await PDFDocument.load`,    *)
(* LoadResolve from there to the next await, and so on.  Several           *)
(* invocations of one session (page load) share the module-level variable  *)
(* cachedFontBytes and interleave at their awaits.                         *)
(*                                                                         *)
(* The repository holds two revisions of the service.  They differ in the  *)
(* status texts, the fetch timeout and a rewrite of "encode" messages in   *)
(* the catch; the control flow is the same.  The model follows the later   *)
(* revision.                                                               *)
(***************************************************************************)
EXTENDS Integers, Sequences, FiniteSets, TLC

(* ------------------------------ bounds --------------------------------- *)

\* number of applyWatermark invocations made in one session
MaxCalls == 2

Procs == 1..MaxCalls

(* --------------------------- program constants ------------------------- *)

\* the three entries of fontSources, by position in the list
NumFontSources == 3

fontSources == 1..NumFontSources

\* Math.max(config.spacing, 20)
MinSpacing == 20

\* \u007F, the last 7-bit character
MaxAscii == 127

(* ------------------------------- values -------------------------------- *)

\* font resources: the empty cache, fetched bytes, the built-in font
Res(kind, k) == [kind |-> kind, bytesOf |-> k]

NULL == Res("null", 0)

Unread == Res("unread", 0)

HelveticaBold == Res("StandardFonts.HelveticaBold", 0)

\* the ArrayBuffer font source k answers with
FontBytes(k) == Res("bytes", k)

\* the Uint8Array pdfDoc.save() resolves with: the pages' draw calls
NoBytes == [kind |-> "null", pages |-> <<>>]

SavedBytes(pages) == [kind |-> "pdf", pages |-> pages]

\* status strings handed to onStatusUpdate
StDownloading == "Downloading Songti Font (~10MB)..."
StTrying      == "Trying font source..."
StEmbedding   == "Embedding font subset..."
StStandard    == "Loading standard font..."
StApplying    == "Applying watermark pattern..."
StFinalizing  == "Finalizing document..."

\* an Error message: its text, and for the font failure the lastError it
\* interpolates (text and source)
Msg(text, cause, src) == [text |-> text, cause |-> cause, src |-> src]

NoError == Msg("<no error>", "", 0)

EmptyMessage == Msg("", "", 0)

\* messages of the errors the code itself throws
MsgEncrypted == Msg("This PDF is encrypted. Please remove protection first.", "", 0)
MsgUnknown   == Msg("Unknown error during PDF processing.", "", 0)
MsgFontLoadFailed(lastErr) == Msg("Font Load Failed: ", lastErr.text, lastErr.src)

\* messages of the errors thrown by pdf-lib and by fetch
MsgLibEncrypted == Msg("Input document to PDFDocument.load is encrypted", "", 0)
MsgLibParse     == Msg("Failed to parse PDF document", "", 0)
MsgLibEmbed     == Msg("embedFont failed", "", 0)
MsgLibDraw      == Msg("drawText failed", "", 0)
MsgLibSave      == Msg("save failed", "", 0)
MsgHttp(k)      == Msg("HTTP status: statusText", "", k)
MsgFetchExc(k)  == Msg("fetch rejected", "", k)
MsgBodyExc(k)   == Msg("arrayBuffer rejected", "", k)

(* ------------------------------- inputs -------------------------------- *)

\* page sizes in points; their diagonals (50 and 100) are whole numbers
PageA == [width |-> 30, height |-> 40]
PageB == [width |-> 60, height |-> 80]

DocInvalid   == [kind |-> "invalid",   pages |-> <<>>]
DocEncrypted == [kind |-> "encrypted", pages |-> <<PageA>>]
DocOnePage   == [kind |-> "plain",     pages |-> <<PageA>>]
DocTwoPages  == [kind |-> "plain",     pages |-> <<PageB, PageA>>]

Docs == {DocInvalid, DocEncrypted, DocOnePage, DocTwoPages}

\* texts as sequences of UTF-16 code units: empty, "DR", two CJK
\* characters (U+673A U+5BC6), and "A" followed by U+673A
TextEmpty == <<>>
TextAscii == <<68, 82>>
TextCJK   == <<26426, 23494>>
TextMixed == <<65, 26426>>

\* colors as sequences of characters
ColorRed == <<"#", "f", "f", "0", "0", "0", "0">>
ColorBad == <<"n", "o", "t", "a", "c", "o", "l", "o", "r">>

\* longest colour string of the exhaustive part of ColorInputs
MaxColorLen == 7

\* the characters of HexLower and HexUpper
HexChars ==
  {"0","1","2","3","4","5","6","7","8","9",
   "a","b","c","d","e","f","A","B","C","D","E","F"}

\* values of config.color: every string up to MaxColorLen over '#', two hex
\* digits and a letter that is none; every pair of hex digits in each
\* channel, with and without '#'; and "notacolor"
ColorInputs ==
  UNION { [1..n -> {"#", "F", "a", "g"}] : n \in 0..MaxColorLen }
  \cup { <<hi, lo, lo, hi, hi, hi>> : hi \in HexChars, lo \in HexChars }
  \cup { <<"#", hi, lo, lo, hi, hi, hi>> : hi \in HexChars, lo \in HexChars }
  \cup { ColorBad }

\* opacity is kept in hundredths (0.3 is 30)
Cfg(t, c, sx, sy) ==
  [text |-> t, color |-> c, opacity |-> 30, rotation |-> 45, fontSize |-> 50,
   spacingX |-> sx, spacingY |-> sy]

CfgAscii == Cfg(TextAscii, ColorRed, 250, 250)
CfgEmpty == Cfg(TextEmpty, ColorBad, 250, 5)
CfgCJK   == Cfg(TextCJK,   ColorRed, 250, 250)
CfgMixed == Cfg(TextMixed, ColorBad, 0, 70)

Configs == {CfgAscii, CfgEmpty, CfgCJK, CfgMixed}

\* the (pdfBuffer, config) pairs applyWatermark is invoked with
Inputs ==
  { <<DocInvalid,   CfgAscii>>,
    <<DocEncrypted, CfgAscii>>,
    <<DocEncrypted, CfgCJK>>,
    <<DocOnePage,   CfgAscii>>,
    <<DocTwoPages,  CfgEmpty>>,
    <<DocOnePage,   CfgMixed>> }

\* further page sizes with a whole diagonal (100, 300 and 1000)
PageWide  == [width |-> 80,  height |-> 60]
PageMid   == [width |-> 180, height |-> 240]
PageLarge == [width |-> 600, height |-> 800]

PlainDoc(pages) == [kind |-> "plain", pages |-> pages]

\* documents for the tiling: one and two pages, portrait and landscape
TilingDocs ==
  { DocOnePage, DocTwoPages, PlainDoc(<<PageWide>>), PlainDoc(<<PageMid>>),
    PlainDoc(<<PageLarge>>) }

\* values of config.spacingX and config.spacingY: SettingsPanel stores
\* parseFloat of whatever was typed, the min/max of the input field are
\* not enforced
Spacings == {-5, 0, 19, 20, 21, 50, 250, 1000}

\* configurations that differ from Cfg(TextAscii, ColorRed, sx, sy) in the
\* text, the colour, the opacity, the rotation, the font size, or in all
CfgVariants(sx, sy) ==
  LET base == Cfg(TextAscii, ColorRed, sx, sy)
  IN { base,
       [base EXCEPT !.text = TextMixed],
       [base EXCEPT !.color = ColorBad],
       [base EXCEPT !.opacity = 100],
       [base EXCEPT !.rotation = 0],
       [base EXCEPT !.fontSize = 12],
       [text |-> TextMixed, color |-> ColorBad, opacity |-> 100,
        rotation |-> 0, fontSize |-> 12, spacingX |-> sx, spacingY |-> sy] }

\* the inputs of repeated runs: documents that share a page size, spacing
\* pairs of which two clamp to the same steps
RepeatInputs ==
  { <<d, c>> : d \in {DocOnePage, DocTwoPages, PlainDoc(<<PageA, PageA>>)},
               c \in CfgVariants(0, 70) \cup CfgVariants(19, 70)
                       \cup CfgVariants(250, 250) }

NoDoc == [kind |-> "none", pages |-> <<>>]
NoCfg == Cfg(<<>>, <<>>, 0, 0)

(* --------------------------- pure functions ---------------------------- *)

\* variant: every non-empty text is taken to need the embedded font
isNonLatinUnlessEmpty(text) == text # <<>>

\* /[^\u0000-\u007F]/.test(text)
isNonLatin(text) == \E k \in DOMAIN text : text[k] > MaxAscii

HexLower == <<"0","1","2","3","4","5","6","7","8","9","a","b","c","d","e","f">>
HexUpper == <<"0","1","2","3","4","5","6","7","8","9","A","B","C","D","E","F">>

IsHexDigit(ch) == \E k \in 1..16 : HexLower[k] = ch \/ HexUpper[k] = ch

HexDigitValue(ch) == (CHOOSE k \in 1..16 : HexLower[k] = ch \/ HexUpper[k] = ch) - 1

\* parseInt(pair, 16) of a two-digit group
ParseHexPair(hi, lo) == 16 * HexDigitValue(hi) + HexDigitValue(lo)

\* a channel is the exact quotient num/den
Chan(n, d) == [num |-> n, den |-> d]

FallbackRgb == [r |-> Chan(8, 10), g |-> Chan(8, 10), b |-> Chan(8, 10)]

\* variant: the pattern without the i flag, capitals do not match
hexToRgbLowerOnly(hex) ==
  LET body == IF Len(hex) > 0 /\ hex[1] = "#" THEN Tail(hex) ELSE hex
  IN IF Len(body) = 6 /\ \A k \in 1..6 : \E j \in 1..16 : HexLower[j] = body[k]
     THEN [r |-> Chan(ParseHexPair(body[1], body[2]), 255),
           g |-> Chan(ParseHexPair(body[3], body[4]), 255),
           b |-> Chan(ParseHexPair(body[5], body[6]), 255)]
     ELSE FallbackRgb

\* variant: the three-digit shorthand is expanded as CSS does
hexToRgbShorthand(hex) ==
  LET body == IF Len(hex) > 0 /\ hex[1] = "#" THEN Tail(hex) ELSE hex
  IN IF Len(body) = 6 /\ \A k \in 1..6 : IsHexDigit(body[k])
     THEN [r |-> Chan(ParseHexPair(body[1], body[2]), 255),
           g |-> Chan(ParseHexPair(body[3], body[4]), 255),
           b |-> Chan(ParseHexPair(body[5], body[6]), 255)]
     ELSE IF Len(body) = 3 /\ \A k \in 1..3 : IsHexDigit(body[k])
     THEN [r |-> Chan(ParseHexPair(body[1], body[1]), 255),
           g |-> Chan(ParseHexPair(body[2], body[2]), 255),
           b |-> Chan(ParseHexPair(body[3], body[3]), 255)]
     ELSE FallbackRgb

\* /^#?([a-f\d]{2})([a-f\d]{2})([a-f\d]{2})$/i.exec(hex)
hexToRgb(hex) ==
  LET body == IF Len(hex) > 0 /\ hex[1] = "#" THEN Tail(hex) ELSE hex
  IN IF Len(body) = 6 /\ \A k \in 1..6 : IsHexDigit(body[k])
     THEN [r |-> Chan(ParseHexPair(body[1], body[2]), 255),
           g |-> Chan(ParseHexPair(body[3], body[4]), 255),
           b |-> Chan(ParseHexPair(body[5], body[6]), 255)]
     ELSE FallbackRgb

\* Math.max
MathMax(a, b) == IF a >= b THEN a ELSE b

effectiveStep(spacing) == MathMax(spacing, MinSpacing)

\* Math.sqrt, to the whole number below: exact where the root is whole, as
\* it is for the pages of the documents above
MathSqrt(n) == CHOOSE d \in 0..n : d * d <= n /\ n < (d + 1) * (d + 1)

\* Math.sqrt(width * width + height * height)
Diagonal(page) ==
  MathSqrt(page.width * page.width + page.height * page.height)

\* for (let v = start; v < end; v += step): the values v takes
RECURSIVE LoopValues(_, _, _)
LoopValues(start, end, step) ==
  IF start < end THEN <<start>> \o LoopValues(start + step, end, step) ELSE <<>>

RECURSIVE FlattenSeq(_)
FlattenSeq(ss) == IF ss = <<>> THEN <<>> ELSE Head(ss) \o FlattenSeq(Tail(ss))

\* variant: the tiling starts at the page origin instead of half a diagonal
\* before it
pageAnchorsFromOrigin(page, stepX, stepY) ==
  LET diagonal == Diagonal(page)
      endX   == 2 * page.width + diagonal
      endY   == 2 * page.height + diagonal
      xs == LoopValues(0, endX, 2 * stepX)
      ys == LoopValues(0, endY, 2 * stepY)
  IN FlattenSeq([a \in 1..Len(xs) |-> [b \in 1..Len(ys) |-> <<xs[a], ys[b]>>]])

\* variant: the loops run while v <= end instead of v < end
pageAnchorsInclusive(page, stepX, stepY) ==
  LET diagonal == Diagonal(page)
      startX == -diagonal
      endX   == 2 * page.width + diagonal
      startY == -diagonal
      endY   == 2 * page.height + diagonal
      xs == LoopValues(startX, endX + 1, 2 * stepX)
      ys == LoopValues(startY, endY + 1, 2 * stepY)
  IN FlattenSeq([a \in 1..Len(xs) |-> [b \in 1..Len(ys) |-> <<xs[a], ys[b]>>]])

\* the anchors of the nested x/y loops of one page, in drawing order.
\* Coordinates are kept doubled so that -diagonal/2 stays a whole number.
pageAnchors(page, stepX, stepY) ==
  LET diagonal == Diagonal(page)
      startX == -diagonal
      endX   == 2 * page.width + diagonal
      startY == -diagonal
      endY   == 2 * page.height + diagonal
      xs == LoopValues(startX, endX, 2 * stepX)
      ys == LoopValues(startY, endY, 2 * stepY)
  IN FlattenSeq([a \in 1..Len(xs) |-> [b \in 1..Len(ys) |-> <<xs[a], ys[b]>>]])

\* one page.drawText call
Tile(cfg, font, color, anchor) ==
  [text |-> cfg.text, x2 |-> anchor[1], y2 |-> anchor[2], size |-> cfg.fontSize,
   font |-> font, color |-> color, opacity |-> cfg.opacity, rotate |-> cfg.rotation]

\* variant: the steps are widened to the font size
drawPagesStepFromFontSize(pages, cfg, font) ==
  LET color == hexToRgb(cfg.color)
      stepX == MathMax(effectiveStep(cfg.spacingX), cfg.fontSize)
      stepY == MathMax(effectiveStep(cfg.spacingY), cfg.fontSize)
  IN [p \in 1..Len(pages) |->
        LET as == pageAnchors(pages[p], stepX, stepY)
        IN [t \in 1..Len(as) |-> Tile(cfg, font, color, as[t])]]

\* variant: both steps are computed from spacingX
drawPagesOneSpacing(pages, cfg, font) ==
  LET color == hexToRgb(cfg.color)
      stepX == effectiveStep(cfg.spacingX)
      stepY == effectiveStep(cfg.spacingX)
  IN [p \in 1..Len(pages) |->
        LET as == pageAnchors(pages[p], stepX, stepY)
        IN [t \in 1..Len(as) |-> Tile(cfg, font, color, as[t])]]

\* for (const page of pages) { ... page.drawText(...) ... }
drawPages(pages, cfg, font) ==
  LET color == hexToRgb(cfg.color)
      stepX == effectiveStep(cfg.spacingX)
      stepY == effectiveStep(cfg.spacingY)
  IN [p \in 1..Len(pages) |->
        LET as == pageAnchors(pages[p], stepX, stepY)
        IN [t \in 1..Len(as) |-> Tile(cfg, font, color, as[t])]]

(* -------------------------------- App ---------------------------------- *)

PDF_WIDTH == 595
PDF_HEIGHT == 842

\* a page of the size the preview assumes
PreviewPage == [width |-> PDF_WIDTH, height |-> PDF_HEIGHT]

\* spacingX and spacingY of the initial config state
DefaultSpacing == 250

\* the values typed into the two spacing fields
PreviewSpacings == {-5, 20, 50, 250, 1000}

\* variant: the preview walks the lattice row by row
previewWatermarksRowMajor(spacingX, spacingY) ==
  LET width    == PDF_WIDTH
      height   == PDF_HEIGHT
      diagonal == MathSqrt(width * width + height * height)
      stepX    == MathMax(spacingX, 20)
      stepY    == MathMax(spacingY, 20)
      xs == LoopValues(-diagonal, 2 * width + diagonal, 2 * stepX)
      ys == LoopValues(-diagonal, 2 * height + diagonal, 2 * stepY)
  IN FlattenSeq([b \in 1..Len(ys) |->
                   [a \in 1..Len(xs) |-> [x2 |-> xs[a], y2 |-> ys[b]]]])

\* the useMemo of previewWatermarks: the marks pushed by its two loops, in
\* order, coordinates doubled as in pageAnchors
previewWatermarks(spacingX, spacingY) ==
  LET width    == PDF_WIDTH
      height   == PDF_HEIGHT
      diagonal == MathSqrt(width * width + height * height)
      stepX    == MathMax(spacingX, 20)
      stepY    == MathMax(spacingY, 20)
      startX   == -diagonal
      endX     == 2 * width + diagonal
      startY   == -diagonal
      endY     == 2 * height + diagonal
      xs == LoopValues(startX, endX, 2 * stepX)
      ys == LoopValues(startY, endY, 2 * stepY)
  IN FlattenSeq([a \in 1..Len(xs) |->
                   [b \in 1..Len(ys) |-> [x2 |-> xs[a], y2 |-> ys[b]]]])

\* throw new Error(error.message || 'Unknown error during PDF processing.')
Rethrow(message) == IF message.text = "" THEN MsgUnknown ELSE message

(* ------------------------------- state --------------------------------- *)

VARIABLES
  cachedFontBytes,  \* the module-level font cache
  pc,               \* the await each invocation is suspended at
  doc,              \* pdfBuffer, as the document it holds
  config,           \* the WatermarkConfig of the invocation
  srcIdx,           \* position of the for-of loop over fontSources
  lastError,        \* the local lastError
  cacheSeen,        \* what `if (!cachedFontBytes)` read
  cacheWrites,      \* how often the invocation assigned cachedFontBytes
  fetched,          \* the sources fetch() was called on, in order
  embedArg,         \* the argument of pdfDoc.embedFont
  font,             \* the embedded font handle
  drawn,            \* the drawText calls made, per page
  status,           \* the strings passed to onStatusUpdate
  result,           \* the returned bytes
  err,              \* the message of the Error the promise rejects with
  appConfig,        \* spacingX and spacingY of the config state of App
  isProcessing,     \* the isProcessing state of App
  buttonDisabled,   \* the disabled attribute of the button as last rendered
  hp,               \* where each handleProcess call is
  statusMessage     \* the statusMessage state of App

vars == <<cachedFontBytes, pc, doc, config, srcIdx, lastError, cacheSeen,
          cacheWrites, fetched, embedArg, font, drawn, status, result, err,
          appConfig, isProcessing, buttonDisabled, hp, statusMessage>>

\* the state of the App component that applyWatermark does not reach
appVars == <<appConfig, isProcessing, buttonDisabled, hp>>

\* the callback handleProcess passes: (status) => setStatusMessage(status).
\* An invocation not made by handleProcess has no callback.
onStatusUpdate(i) ==
  statusMessage' =
    IF hp[i] # "none" /\ status'[i] # status[i]
      THEN status'[i][Len(status'[i])]
      ELSE statusMessage

\* useMemo(..., [config.spacingX, config.spacingY]): what a render of App
\* has as previewWatermarks is computed from the spacings of its config
previewMarks == previewWatermarks(appConfig.spacingX, appConfig.spacingY)

Init ==
  /\ cachedFontBytes = NULL
  /\ pc = [i \in Procs |-> "idle"]
  /\ doc = [i \in Procs |-> NoDoc]
  /\ config = [i \in Procs |-> NoCfg]
  /\ srcIdx = [i \in Procs |-> 0]
  /\ lastError = [i \in Procs |-> EmptyMessage]
  /\ cacheSeen = [i \in Procs |-> Unread]
  /\ cacheWrites = [i \in Procs |-> 0]
  /\ fetched = [i \in Procs |-> <<>>]
  /\ embedArg = [i \in Procs |-> NULL]
  /\ font = [i \in Procs |-> NULL]
  /\ drawn = [i \in Procs |-> <<>>]
  /\ status = [i \in Procs |-> <<>>]
  /\ result = [i \in Procs |-> NoBytes]
  /\ err = [i \in Procs |-> NoError]
  /\ appConfig = [spacingX |-> DefaultSpacing, spacingY |-> DefaultSpacing]
  /\ isProcessing = FALSE
  /\ buttonDisabled = FALSE
  /\ hp = [i \in Procs |-> "none"]
  /\ statusMessage = ""

(* --------------------------- applyWatermark ---------------------------- *)

\* what PDFDocument.load(bytes, { ignoreEncryption: false }) can reject with
LoadRejections(d) ==
  CASE d.kind = "invalid"   -> {MsgLibParse, EmptyMessage}
    [] d.kind = "encrypted" -> {MsgLibEncrypted}
    [] OTHER                -> {}

\* the documents PDFDocument.load can resolve with
LoadResolves(d) == d.kind \in {"plain", "encrypted"}

\* variant: the encryption check never fires
isEncryptedNever(d) == FALSE

\* pdfDoc.isEncrypted
isEncrypted(d) == d.kind = "encrypted"

\* variant: the cache is never consulted, every call downloads
cacheIsEmptyAlways(cache) == TRUE

\* if (!cachedFontBytes)
cacheIsEmpty(cache) == cache = NULL

\* the catch of applyWatermark: the promise rejects, nothing is returned
Fail(i, message) ==
  /\ pc' = [pc EXCEPT ![i] = "failed"]
  /\ err' = [err EXCEPT ![i] = Rethrow(message)]

\* variant: the source attempts are not announced
AttemptSourceSilent(i, k, st) ==
  /\ srcIdx' = [srcIdx EXCEPT ![i] = k]
  /\ status' = [status EXCEPT ![i] = st]
  /\ fetched' = [fetched EXCEPT ![i] = Append(@, k)]
  /\ pc' = [pc EXCEPT ![i] = "fetch"]
  /\ UNCHANGED err

\* one iteration's head of `for (const url of fontSources)`: the status
\* message and the fetch call on source k
AttemptSource(i, k, st) ==
  /\ srcIdx' = [srcIdx EXCEPT ![i] = k]
  /\ status' = [status EXCEPT ![i] = st \o <<StTrying>>]
  /\ fetched' = [fetched EXCEPT ![i] = Append(@, k)]
  /\ pc' = [pc EXCEPT ![i] = "fetch"]
  /\ UNCHANGED err

\* variant: lastError keeps the first failure instead of the latest
SourceFailedKeepsFirstError(i, m) ==
  LET kept == IF lastError[i] = EmptyMessage THEN m ELSE lastError[i]
  IN /\ lastError' = [lastError EXCEPT ![i] = kept]
     /\ IF srcIdx[i] < NumFontSources
          THEN AttemptSource(i, srcIdx[i] + 1, status[i])
          ELSE /\ Fail(i, MsgFontLoadFailed(kept))
               /\ UNCHANGED <<srcIdx, status, fetched>>
     /\ UNCHANGED <<cachedFontBytes, doc, config, cacheSeen, cacheWrites,
                    embedArg, font, drawn, result>>

\* variant: after the last source has failed it is tried once more
SourceFailedRetriesLast(i, m) ==
  /\ lastError' = [lastError EXCEPT ![i] = m]
  /\ IF srcIdx[i] < NumFontSources
       THEN AttemptSource(i, srcIdx[i] + 1, status[i])
       ELSE IF Len(fetched[i]) = NumFontSources
         THEN AttemptSource(i, srcIdx[i], status[i])
         ELSE /\ Fail(i, MsgFontLoadFailed(m))
              /\ UNCHANGED <<srcIdx, status, fetched>>
  /\ UNCHANGED <<cachedFontBytes, doc, config, cacheSeen, cacheWrites,
                 embedArg, font, drawn, result>>

\* a source failed with message m: lastError = m, then the next source, or
\* after the last one `if (!success) throw new Error(...)`
SourceFailed(i, m) ==
  /\ lastError' = [lastError EXCEPT ![i] = m]
  /\ IF srcIdx[i] < NumFontSources
       THEN AttemptSource(i, srcIdx[i] + 1, status[i])
       ELSE /\ Fail(i, MsgFontLoadFailed(m))
            /\ UNCHANGED <<srcIdx, status, fetched>>
  /\ UNCHANGED <<cachedFontBytes, doc, config, cacheSeen, cacheWrites,
                 embedArg, font, drawn, result>>

\* variant: embedFont is not awaited, the pages are drawn at once
StartEmbedAndDraw(i, st, arg) ==
  /\ status' = [status EXCEPT ![i] = Append(@, st)]
  /\ embedArg' = [embedArg EXCEPT ![i] = arg]
  /\ drawn' = [drawn EXCEPT ![i] = drawPages(doc[i].pages, config[i], arg)]
  /\ pc' = [pc EXCEPT ![i] = "embed"]
  /\ UNCHANGED <<font, err>>

\* onStatusUpdate(st); font = await pdfDoc.embedFont(arg)
StartEmbed(i, st, arg) ==
  /\ status' = [status EXCEPT ![i] = Append(@, st)]
  /\ embedArg' = [embedArg EXCEPT ![i] = arg]
  /\ pc' = [pc EXCEPT ![i] = "embed"]
  /\ UNCHANGED <<font, drawn, err>>

\* applyWatermark(pdfBuffer, config, onStatusUpdate) up to the await of
\* PDFDocument.load.  Invocations are numbered in the order they are made.
Call(i, d, c) ==
  /\ pc[i] = "idle"
  /\ \A j \in Procs : j < i => pc[j] # "idle"
  /\ doc' = [doc EXCEPT ![i] = d]
  /\ config' = [config EXCEPT ![i] = c]
  /\ pc' = [pc EXCEPT ![i] = "load"]
  /\ UNCHANGED <<cachedFontBytes, srcIdx, lastError, cacheSeen, cacheWrites,
                 fetched, embedArg, font, drawn, status, result, err>>
  /\ UNCHANGED appVars
  /\ onStatusUpdate(i)

\* PDFDocument.load rejects
LoadReject(i, m) ==
  /\ pc[i] = "load"
  /\ m \in LoadRejections(doc[i])
  /\ Fail(i, m)
  /\ UNCHANGED <<cachedFontBytes, doc, config, srcIdx, lastError, cacheSeen,
                 cacheWrites, fetched, embedArg, font, drawn, status, result>>
  /\ UNCHANGED appVars
  /\ onStatusUpdate(i)

\* PDFDocument.load resolves: the encryption check, then font selection up
\* to the first await of the branch taken
LoadResolve(i) ==
  /\ pc[i] = "load"
  /\ LoadResolves(doc[i])
  /\ IF isEncrypted(doc[i])
       THEN /\ Fail(i, MsgEncrypted)
            /\ UNCHANGED <<srcIdx, cacheSeen, fetched, embedArg, status,
                           font, drawn>>
       ELSE IF isNonLatin(config[i].text)
         THEN /\ cacheSeen' = [cacheSeen EXCEPT ![i] = cachedFontBytes]
              /\ IF cacheIsEmpty(cachedFontBytes)
                   THEN /\ AttemptSource(i, 1, <<StDownloading>>)
                        /\ UNCHANGED <<embedArg, font, drawn>>
                   ELSE /\ StartEmbed(i, StEmbedding, cachedFontBytes)
                        /\ UNCHANGED <<srcIdx, fetched>>
         ELSE /\ StartEmbed(i, StStandard, HelveticaBold)
              /\ UNCHANGED <<srcIdx, cacheSeen, fetched>>
  /\ UNCHANGED <<cachedFontBytes, doc, config, lastError, cacheWrites, result>>
  /\ UNCHANGED appVars
  /\ onStatusUpdate(i)

\* fetch(url) resolves with response.ok: response.arrayBuffer() is awaited
FetchOk(i) ==
  /\ pc[i] = "fetch"
  /\ pc' = [pc EXCEPT ![i] = "body"]
  /\ UNCHANGED <<cachedFontBytes, doc, config, srcIdx, lastError, cacheSeen,
                 cacheWrites, fetched, embedArg, font, drawn, status, result,
                 err>>
  /\ UNCHANGED appVars
  /\ onStatusUpdate(i)

\* variant: the response body is stored before response.ok is looked at
FetchHttpErrorCachesBody(i) ==
  /\ pc[i] = "fetch"
  /\ cachedFontBytes' = FontBytes(srcIdx[i])
  /\ cacheWrites' = [cacheWrites EXCEPT ![i] = @ + 1]
  /\ lastError' = [lastError EXCEPT ![i] = MsgHttp(srcIdx[i])]
  /\ IF srcIdx[i] < NumFontSources
       THEN AttemptSource(i, srcIdx[i] + 1, status[i])
       ELSE /\ Fail(i, MsgFontLoadFailed(MsgHttp(srcIdx[i])))
            /\ UNCHANGED <<srcIdx, status, fetched>>
  /\ UNCHANGED <<doc, config, cacheSeen, embedArg, font, drawn, result>>
  /\ UNCHANGED appVars
  /\ onStatusUpdate(i)

\* fetch(url) resolves with a non-success status
FetchHttpError(i) ==
  /\ pc[i] = "fetch"
  /\ SourceFailed(i, MsgHttp(srcIdx[i]))
  /\ UNCHANGED appVars
  /\ onStatusUpdate(i)

\* fetch(url) rejects: network error, or AbortSignal.timeout fires
FetchReject(i) ==
  /\ pc[i] = "fetch"
  /\ SourceFailed(i, MsgFetchExc(srcIdx[i]))
  /\ UNCHANGED appVars
  /\ onStatusUpdate(i)

\* variant: the loop has no break, the next source is fetched after a
\* success as well
BodyResolveNoBreak(i) ==
  /\ pc[i] = "body"
  /\ cachedFontBytes' = FontBytes(srcIdx[i])
  /\ cacheWrites' = [cacheWrites EXCEPT ![i] = @ + 1]
  /\ IF srcIdx[i] < NumFontSources
       THEN /\ AttemptSource(i, srcIdx[i] + 1, status[i])
            /\ UNCHANGED <<embedArg, font, drawn>>
       ELSE /\ StartEmbed(i, StEmbedding, cachedFontBytes')
            /\ UNCHANGED <<srcIdx, fetched>>
  /\ UNCHANGED <<doc, config, lastError, cacheSeen, result>>
  /\ UNCHANGED appVars
  /\ onStatusUpdate(i)

\* response.arrayBuffer() resolves: cachedFontBytes = bytes; success; break;
\* then the embed of cachedFontBytes
BodyResolve(i) ==
  /\ pc[i] = "body"
  /\ cachedFontBytes' = FontBytes(srcIdx[i])
  /\ cacheWrites' = [cacheWrites EXCEPT ![i] = @ + 1]
  /\ StartEmbed(i, StEmbedding, cachedFontBytes')
  /\ UNCHANGED <<doc, config, srcIdx, lastError, cacheSeen, fetched, result>>
  /\ UNCHANGED appVars
  /\ onStatusUpdate(i)

\* response.arrayBuffer() rejects inside the try of the loop
BodyReject(i) ==
  /\ pc[i] = "body"
  /\ SourceFailed(i, MsgBodyExc(srcIdx[i]))
  /\ UNCHANGED appVars
  /\ onStatusUpdate(i)

\* pdfDoc.embedFont rejects
EmbedReject(i) ==
  /\ pc[i] = "embed"
  /\ Fail(i, MsgLibEmbed)
  /\ UNCHANGED <<cachedFontBytes, doc, config, srcIdx, lastError, cacheSeen,
                 cacheWrites, fetched, embedArg, font, drawn, status, result>>
  /\ UNCHANGED appVars
  /\ onStatusUpdate(i)

\* pdfDoc.embedFont rejects with something that has no message
EmbedRejectNoMessage(i) ==
  /\ pc[i] = "embed"
  /\ Fail(i, EmptyMessage)
  /\ UNCHANGED <<cachedFontBytes, doc, config, srcIdx, lastError, cacheSeen,
                 cacheWrites, fetched, embedArg, font, drawn, status, result>>
  /\ UNCHANGED appVars
  /\ onStatusUpdate(i)

\* pdfDoc.embedFont resolves: the tiling loops over every page, then the
\* await of pdfDoc.save()
EmbedResolve(i) ==
  /\ pc[i] = "embed"
  /\ font' = [font EXCEPT ![i] = embedArg[i]]
  /\ drawn' = [drawn EXCEPT ![i] = drawPages(doc[i].pages, config[i], embedArg[i])]
  /\ status' = [status EXCEPT ![i] = @ \o <<StApplying, StFinalizing>>]
  /\ pc' = [pc EXCEPT ![i] = "save"]
  /\ UNCHANGED <<cachedFontBytes, doc, config, srcIdx, lastError, cacheSeen,
                 cacheWrites, fetched, embedArg, result, err>>
  /\ UNCHANGED appVars
  /\ onStatusUpdate(i)

\* variant: the error of drawText is swallowed, the document is saved
\* with the tiles drawn so far
EmbedResolveDrawErrorSwallowed(i) ==
  /\ pc[i] = "embed"
  /\ Len(doc[i].pages) > 0
  /\ font' = [font EXCEPT ![i] = embedArg[i]]
  /\ drawn' = [drawn EXCEPT ![i] = [p \in 1..Len(doc[i].pages) |-> <<>>]]
  /\ status' = [status EXCEPT ![i] = @ \o <<StApplying, StFinalizing>>]
  /\ pc' = [pc EXCEPT ![i] = "save"]
  /\ UNCHANGED <<cachedFontBytes, doc, config, srcIdx, lastError, cacheSeen,
                 cacheWrites, fetched, embedArg, result, err>>
  /\ UNCHANGED appVars
  /\ onStatusUpdate(i)

\* pdfDoc.embedFont resolves and the first page.drawText throws
EmbedResolveDrawThrows(i) ==
  /\ pc[i] = "embed"
  /\ Len(doc[i].pages) > 0
  /\ font' = [font EXCEPT ![i] = embedArg[i]]
  /\ status' = [status EXCEPT ![i] = Append(@, StApplying)]
  /\ Fail(i, MsgLibDraw)
  /\ UNCHANGED <<cachedFontBytes, doc, config, srcIdx, lastError, cacheSeen,
                 cacheWrites, fetched, embedArg, drawn, result>>
  /\ UNCHANGED appVars
  /\ onStatusUpdate(i)

\* pdfDoc.save() resolves: the bytes are returned
SaveResolve(i) ==
  /\ pc[i] = "save"
  /\ result' = [result EXCEPT ![i] = SavedBytes(drawn[i])]
  /\ pc' = [pc EXCEPT ![i] = "done"]
  /\ UNCHANGED <<cachedFontBytes, doc, config, srcIdx, lastError, cacheSeen,
                 cacheWrites, fetched, embedArg, font, drawn, status, err>>
  /\ UNCHANGED appVars
  /\ onStatusUpdate(i)

\* pdfDoc.save() rejects
SaveReject(i) ==
  /\ pc[i] = "save"
  /\ Fail(i, MsgLibSave)
  /\ UNCHANGED <<cachedFontBytes, doc, config, srcIdx, lastError, cacheSeen,
                 cacheWrites, fetched, embedArg, font, drawn, status, result>>
  /\ UNCHANGED appVars
  /\ onStatusUpdate(i)

\* pdfDoc.save() rejects with something that has no message
SaveRejectNoMessage(i) ==
  /\ pc[i] = "save"
  /\ Fail(i, EmptyMessage)
  /\ UNCHANGED <<cachedFontBytes, doc, config, srcIdx, lastError, cacheSeen,
                 cacheWrites, fetched, embedArg, font, drawn, status, result>>
  /\ UNCHANGED appVars
  /\ onStatusUpdate(i)

(* --------------------------- specifications ---------------------------- *)

\* the steps of the invocations already made
Step ==
  \/ \E i \in Procs, m \in {MsgLibParse, MsgLibEncrypted, EmptyMessage} : LoadReject(i, m)
  \/ \E i \in Procs : LoadResolve(i)
  \/ \E i \in Procs : FetchOk(i)
  \/ \E i \in Procs : FetchHttpError(i)
  \/ \E i \in Procs : FetchReject(i)
  \/ \E i \in Procs : BodyResolve(i)
  \/ \E i \in Procs : BodyReject(i)
  \/ \E i \in Procs : EmbedReject(i)
  \/ \E i \in Procs : EmbedResolve(i)
  \/ \E i \in Procs : EmbedResolveDrawThrows(i)
  \/ \E i \in Procs : SaveResolve(i)
  \/ \E i \in Procs : SaveReject(i)

\* a session in which applyWatermark may be invoked while earlier
\* invocations are still suspended
Next ==
  \/ \E i \in Procs, in \in Inputs : Call(i, in[1], in[2])
  \/ Step

Spec == Init /\ [][Next]_vars

\* every earlier invocation has returned or thrown
Settled == \A j \in Procs : pc[j] \in {"idle", "done", "failed"}

\* a session in which each invocation starts after the earlier ones ended
NextSeq ==
  \/ \E i \in Procs, in \in Inputs : Settled /\ Call(i, in[1], in[2])
  \/ Step

SpecSeq == Init /\ [][NextSeq]_vars

\* two runs on unencrypted documents, the second started while the first
\* is suspended or after it has ended, with the steps of runs that can
\* succeed: a font source may answer with an HTTP error before one
\* delivers
NextRepeat ==
  \/ \E i \in {1, 2}, in \in RepeatInputs : Call(i, in[1], in[2])
  \/ \E i \in {1, 2} : LoadResolve(i)
  \/ \E i \in {1, 2} : FetchOk(i)
  \/ \E i \in {1, 2} : FetchHttpError(i)
  \/ \E i \in {1, 2} : BodyResolve(i)
  \/ \E i \in {1, 2} : EmbedResolve(i)
  \/ \E i \in {1, 2} : SaveResolve(i)

SpecRepeat == Init /\ [][NextRepeat]_vars

\* t.preparing, set by handleProcess before it reads the file
StPreparing == "Preparing..."

\* a click on the button, which the browser delivers unless the button is
\* disabled in the document as last rendered: handleProcess with a file
\* selected, up to `await file.file.arrayBuffer()`.  The handler does not
\* look at isProcessing.
handleProcess(i) ==
  /\ ~buttonDisabled
  /\ hp[i] = "none"
  /\ \A j \in Procs : j < i => hp[j] # "none"
  /\ isProcessing' = TRUE
  /\ statusMessage' = StPreparing
  /\ hp' = [hp EXCEPT ![i] = "running"]
  /\ UNCHANGED <<cachedFontBytes, pc, doc, config, srcIdx, lastError,
                 cacheSeen, cacheWrites, fetched, embedArg, font, drawn,
                 status, result, err, appConfig, buttonDisabled>>

\* React renders App: disabled={isProcessing} reaches the document
Render ==
  /\ buttonDisabled # isProcessing
  /\ buttonDisabled' = isProcessing
  /\ UNCHANGED <<cachedFontBytes, pc, doc, config, srcIdx, lastError,
                 cacheSeen, cacheWrites, fetched, embedArg, font, drawn,
                 status, result, err, appConfig, isProcessing, hp,
                 statusMessage>>

\* file.file.arrayBuffer() resolves and handleProcess calls applyWatermark
\* with the bytes, the config state and the status callback
FileRead(i, d, t) ==
  /\ hp[i] = "running"
  /\ Call(i, d, Cfg(t, ColorRed, appConfig.spacingX, appConfig.spacingY))

\* applyWatermark has returned or thrown: the rest of handleProcess, the
\* download or the catch, and the finally
ProcessExit(i) ==
  /\ hp[i] = "running"
  /\ pc[i] \in {"done", "failed"}
  /\ isProcessing' = FALSE
  /\ statusMessage' = ""
  /\ hp' = [hp EXCEPT ![i] = "exited"]
  /\ UNCHANGED <<cachedFontBytes, pc, doc, config, srcIdx, lastError,
                 cacheSeen, cacheWrites, fetched, embedArg, font, drawn,
                 status, result, err, appConfig, buttonDisabled>>

\* the App with a file selected: clicks, renders, and the invocations
\* handleProcess makes
NextUI ==
  \/ \E i \in Procs : handleProcess(i)
  \/ Render
  \/ \E i \in Procs, d \in {DocInvalid, DocOnePage},
        t \in {TextAscii, TextMixed} : FileRead(i, d, t)
  \/ Step
  \/ \E i \in Procs : ProcessExit(i)

SpecUI == Init /\ [][NextUI]_vars

\* the session of Next, where the rejections of embedFont and save may
\* also come without a message, as those of PDFDocument.load
NextErrors ==
  \/ Next
  \/ \E i \in Procs : EmbedRejectNoMessage(i)
  \/ \E i \in Procs : SaveRejectNoMessage(i)

SpecErrors == Init /\ [][NextErrors]_vars

\* one invocation with ASCII text on an unencrypted document, for every
\* page size and pair of spacings: load, embed of the built-in font, the
\* tiling loops, save
NextTiling ==
  \/ \E d \in TilingDocs, sx \in Spacings, sy \in Spacings :
       Call(1, d, Cfg(TextAscii, ColorRed, sx, sy))
  \/ LoadResolve(1)
  \/ EmbedReject(1)
  \/ EmbedResolve(1)
  \/ EmbedResolveDrawThrows(1)
  \/ SaveResolve(1)
  \/ SaveReject(1)

SpecTiling == Init /\ [][NextTiling]_vars

\* handleChange of a spacing field (SettingsPanel is disabled while an
\* invocation runs): setConfig with the field replaced
handleChange(name, value) ==
  /\ \A i \in Procs : pc[i] \in {"idle", "done", "failed"}
  /\ name \in {"spacingX", "spacingY"}
  /\ appConfig' = [appConfig EXCEPT ![name] = value]
  /\ UNCHANGED <<cachedFontBytes, pc, doc, config, srcIdx, lastError,
                 cacheSeen, cacheWrites, fetched, embedArg, font, drawn,
                 status, result, err>>
  /\ UNCHANGED <<isProcessing, buttonDisabled, hp, statusMessage>>

\* the App: the spacings are edited, then handleProcess passes the config
\* state to applyWatermark, here with a document of one page of the size
\* the preview assumes
NextPreview ==
  \/ \E name \in {"spacingX", "spacingY"}, value \in PreviewSpacings :
       handleChange(name, value)
  \/ Call(1, PlainDoc(<<PreviewPage>>),
          Cfg(TextAscii, ColorRed, appConfig.spacingX, appConfig.spacingY))
  \/ LoadResolve(1)
  \/ EmbedReject(1)
  \/ EmbedResolve(1)
  \/ EmbedResolveDrawThrows(1)
  \/ SaveResolve(1)
  \/ SaveReject(1)

SpecPreview == Init /\ [][NextPreview]_vars

\* one invocation with ASCII text on a one-page document, for every colour
\* string
NextColor ==
  \/ /\ pc[1] = "idle"
     /\ \E c \in ColorInputs : Call(1, DocOnePage, Cfg(TextAscii, c, 250, 250))
  \/ LoadResolve(1)
  \/ EmbedReject(1)
  \/ EmbedResolve(1)
  \/ EmbedResolveDrawThrows(1)
  \/ SaveResolve(1)
  \/ SaveReject(1)

SpecColor == Init /\ [][NextColor]_vars

\* the continuations of invocation i: the promise it awaits settles
StepOf(i) ==
  \/ \E m \in {MsgLibParse, MsgLibEncrypted, EmptyMessage} : LoadReject(i, m)
  \/ LoadResolve(i)
  \/ FetchOk(i)
  \/ FetchHttpError(i)
  \/ FetchReject(i)
  \/ BodyResolve(i)
  \/ BodyReject(i)
  \/ EmbedReject(i)
  \/ EmbedResolve(i)
  \/ EmbedResolveDrawThrows(i)
  \/ SaveResolve(i)
  \/ SaveReject(i)

\* the same session, where every awaited promise settles in the end:
\* PDFDocument.load, embedFont and save are computations of pdf-lib, fetch
\* has AbortSignal.timeout(120000), the body read ends with the connection
SpecFair == Init /\ [][Next]_vars /\ \A i \in Procs : WF_vars(StepOf(i))

(* ------------------------------ properties ----------------------------- *)

\* the input of invocation i is an encrypted document
EncryptedInput(i) == doc[i].kind = "encrypted"

\* the text of invocation i has a character outside 7-bit ASCII
NonLatinText(i) == \E k \in DOMAIN config[i].text : config[i].text[k] > 127

\* invocation i has made a drawText call
HasDrawn(i) == \E p \in DOMAIN drawn[i] : Len(drawn[i][p]) > 0

\* invocation i has started a fetch sequence over the font sources
StartedFetching(i) == fetched[i] # <<>>

\* C1: an invocation on an encrypted document fails with the
\* encrypted-input error before any font resolution step: it reads no
\* cache, fetches no source, embeds no font, writes no cache, draws
\* nothing and returns no bytes, whatever its text and the cache state.
C1_EncryptedFailsBeforeFontResolution ==
  \A i \in Procs :
    EncryptedInput(i) =>
      /\ pc[i] \in {"load", "failed"}
      /\ pc[i] = "failed" => err[i] \in {MsgEncrypted, MsgLibEncrypted}
      /\ cacheSeen[i] = Unread
      /\ fetched[i] = <<>>
      /\ embedArg[i] = NULL
      /\ font[i] = NULL
      /\ cacheWrites[i] = 0
      /\ status[i] = <<>>
      /\ ~HasDrawn(i)
      /\ result[i] = NoBytes

\* an encrypted document with non-Latin text has been rejected by the
\* encryption check while the cache is filled
C1_Witness ==
  \E i \in Procs :
    /\ EncryptedInput(i)
    /\ NonLatinText(i)
    /\ pc[i] = "failed"
    /\ err[i] = MsgEncrypted
    /\ cachedFontBytes # NULL

\* invocation i is inside its loop over the font sources
Fetching(i) == pc[i] \in {"fetch", "body"}

\* C2: concurrent invocations with non-Latin text that both find the cache
\* empty do not both fetch: no two invocations are inside a fetch sequence
\* at the same time.
C2_ConcurrentCallsDoNotBothFetch ==
  \A i, j \in Procs : i # j => ~(Fetching(i) /\ Fetching(j))

\* the invocations that started a fetch sequence
FetchSequences == {i \in Procs : StartedFetching(i)}

\* every source was attempted in invocation i and none delivered bytes
AllSourcesFailed(i) ==
  /\ pc[i] = "failed"
  /\ Len(fetched[i]) = NumFontSources
  /\ cacheWrites[i] = 0

\* C3 as stated: sequential calls start at most one fetch sequence in
\* total, whatever the outcome of the first call.
C3_AtMostOneFetchSequence == Cardinality(FetchSequences) <= 1

\* C3, amended: of two sequential calls that both start a fetch sequence,
\* the earlier one failed on every source; a call whose fetch sequence
\* delivered bytes is followed by no further fetch sequence, and at most
\* one call of the session writes the cache.
C3_OneFetchSequenceUnlessAllSourcesFailed ==
  /\ \A i, j \in Procs :
       i < j /\ StartedFetching(i) /\ StartedFetching(j) => AllSourcesFailed(i)
  /\ Cardinality({i \in Procs : cacheWrites[i] > 0}) <= 1

\* two sequential calls with non-Latin text have completed, the first
\* downloaded the font, the second fetched nothing
C3_Witness ==
  \E i, j \in Procs :
    /\ i < j
    /\ NonLatinText(i) /\ NonLatinText(j)
    /\ pc[i] = "done" /\ pc[j] = "done"
    /\ StartedFetching(i) /\ ~StartedFetching(j)

SourceFailures(k) == {MsgHttp(k), MsgFetchExc(k), MsgBodyExc(k)}

\* C5: with non-Latin text, an empty cache and every source failing, the
\* call fails with the font-unavailable error, whose message carries the
\* failure message of the last source of the list, and returns no bytes.
C5_AllSourcesFailedIsFontUnavailable ==
  \A i \in Procs :
    AllSourcesFailed(i) =>
      /\ NonLatinText(i)
      /\ cacheSeen[i] = NULL
      /\ \E m \in SourceFailures(NumFontSources) : err[i] = MsgFontLoadFailed(m)
      /\ embedArg[i] = NULL
      /\ ~HasDrawn(i)
      /\ result[i] = NoBytes

\* every source failed, the first two with an HTTP status and the last
\* one by rejecting
C5_Witness ==
  \E i \in Procs :
    /\ AllSourcesFailed(i)
    /\ err[i] = MsgFontLoadFailed(MsgFetchExc(NumFontSources))

\* invocation i failed with the font-unavailable error
FontUnavailable(i) == pc[i] = "failed" /\ err[i].text = "Font Load Failed: "

\* invocation j has got past PDFDocument.load and the encryption check
PastLoad(j) == pc[j] \notin {"idle", "load"} /\ doc[j].kind = "plain"

\* C6: a call in which every source failed has attempted the whole list
\* and written nothing, so the cache is still empty when it ends; the next
\* call with non-Latin text starts again at the first source and goes
\* through the list in order until a source delivers or the list ends.
C6_FailedDownloadIsRetriedFromFirstSource ==
  \A i \in Procs :
    FontUnavailable(i) =>
      /\ cacheWrites[i] = 0
      /\ fetched[i] = [k \in 1..NumFontSources |-> k]
      /\ (\A j \in Procs : j > i => pc[j] \in {"idle", "load"}) => cachedFontBytes = NULL
      /\ \A j \in Procs :
           j = i + 1 /\ NonLatinText(j) /\ PastLoad(j) =>
             /\ cacheSeen[j] = NULL
             /\ StartedFetching(j)
             /\ fetched[j][1] = 1
             /\ (~Fetching(j) /\ cacheWrites[j] = 0) => Len(fetched[j]) = NumFontSources

\* a call failed on every source and the next call, again with non-Latin
\* text, failed on every source too
C6_Witness ==
  \E i, j \in Procs :
    /\ j = i + 1
    /\ FontUnavailable(i) /\ FontUnavailable(j)
    /\ fetched[j] = <<1, 2, 3>>

\* the fonts of the drawText calls of invocation i
DrawnFonts(i) ==
  UNION {{drawn[i][p][t].font : t \in DOMAIN drawn[i][p]} : p \in DOMAIN drawn[i]}

\* C7: with a text of 7-bit ASCII characters only (the empty text
\* included) the call fetches nothing, does not read or write the cache,
\* and embeds and draws with the built-in bold font, whether or not the
\* cache is filled.
C7_AsciiTextUsesStandardFont ==
  \A i \in Procs :
    (pc[i] # "idle" /\ ~NonLatinText(i)) =>
      /\ ~StartedFetching(i)
      /\ cacheSeen[i] = Unread
      /\ cacheWrites[i] = 0
      /\ embedArg[i] \in {NULL, HelveticaBold}
      /\ pc[i] \in {"embed", "save", "done"} => embedArg[i] = HelveticaBold
      /\ DrawnFonts(i) \subseteq {HelveticaBold}

\* a call with the empty text has completed with the built-in font while
\* the cache is filled
C7_Witness ==
  \E i \in Procs :
    /\ pc[i] = "done"
    /\ config[i].text = <<>>
    /\ embedArg[i] = HelveticaBold
    /\ HasDrawn(i)
    /\ cachedFontBytes # NULL

\* C8: a call with non-Latin text that finds bytes in the cache when it
\* reaches font resolution fetches nothing, writes nothing and embeds the
\* bytes it found.
C8_FilledCacheSkipsNetwork ==
  \A i \in Procs :
    cacheSeen[i] \notin {Unread, NULL} =>
      /\ NonLatinText(i)
      /\ ~StartedFetching(i)
      /\ cacheWrites[i] = 0
      /\ embedArg[i] = cacheSeen[i]
      /\ DrawnFonts(i) \subseteq {cacheSeen[i]}

\* a call has completed with the bytes another call had put in the cache
C8_Witness ==
  \E i \in Procs :
    /\ pc[i] = "done"
    /\ cacheSeen[i] = FontBytes(2)
    /\ embedArg[i] = FontBytes(2)
    /\ HasDrawn(i)

RECURSIVE SumWrites(_)
SumWrites(n) == IF n = 0 THEN 0 ELSE cacheWrites[n] + SumWrites(n - 1)

\* C9: the cache is written at most once per session, by sequential and
\* by concurrent invocations alike.
C9_CacheWrittenAtMostOnce == SumWrites(MaxCalls) <= 1

\* C10: within one invocation every fetch and the embed have completed
\* before the first tile is drawn: tiles exist only once the font handle
\* is there, they are drawn with that handle, none is drawn while a load,
\* fetch or embed is pending, and none in a call whose font resolution
\* failed.
C10_FontResolvedBeforeDrawing ==
  \A i \in Procs :
    /\ HasDrawn(i) =>
         /\ pc[i] \in {"save", "done", "failed"}
         /\ font[i] # NULL
         /\ font[i] = embedArg[i]
         /\ DrawnFonts(i) = {font[i]}
    /\ pc[i] \in {"load", "fetch", "body", "embed"} => ~HasDrawn(i)
    /\ (pc[i] = "failed" /\ font[i] = NULL) => ~HasDrawn(i)

\* a call that downloaded the font has drawn its tiles and awaits save
C10_Witness ==
  \E i \in Procs :
    /\ pc[i] = "save"
    /\ StartedFetching(i)
    /\ HasDrawn(i)
    /\ font[i] = FontBytes(1)

\* the step the tiling is to use for a configured spacing
ClampedStep(spacing) == IF spacing < 20 THEN 20 ELSE spacing

\* the least n with n * b >= a, for b > 0
CeilDiv(a, b) == IF a <= 0 THEN 0 ELSE ((a - 1) \div b) + 1

\* the whole diagonal d of a page: d * d = width^2 + height^2
WholeDiagonal(page) ==
  CHOOSE d \in 0..(page.width + page.height) :
    d * d = page.width * page.width + page.height * page.height

\* ceil((W + d) / stepX) * ceil((H + d) / stepY)
ExpectedTiles(page, cfg) ==
  CeilDiv(page.width + WholeDiagonal(page), ClampedStep(cfg.spacingX))
    * CeilDiv(page.height + WholeDiagonal(page), ClampedStep(cfg.spacingY))

\* C11: an invocation ends in exactly one of two ways: it returns the
\* saved document, and then every tile of every page has been drawn and
\* no error is raised; or it raises one error and returns no bytes.  A
\* failure at any step, also after tiles were drawn, yields no bytes.
C11_WholeDocumentOrNothing ==
  \A i \in Procs :
    /\ pc[i] = "done" =>
         /\ err[i] = NoError
         /\ result[i].kind = "pdf"
         /\ result[i].pages = drawn[i]
         /\ Len(drawn[i]) = Len(doc[i].pages)
         /\ \A p \in DOMAIN drawn[i] :
              Len(drawn[i][p]) = ExpectedTiles(doc[i].pages[p], config[i])
    /\ pc[i] = "failed" => (result[i] = NoBytes /\ err[i] # NoError)
    /\ pc[i] \notin {"done", "failed"} => (result[i] = NoBytes /\ err[i] = NoError)

\* the save step failed after all tiles had been drawn: nothing is returned
C11_Witness ==
  \E i \in Procs :
    /\ pc[i] = "failed"
    /\ HasDrawn(i)
    /\ err[i] = MsgLibSave
    /\ result[i] = NoBytes

\* the differences between the x (y) coordinates of consecutive drawText
\* calls of a page, where the coordinate changes (x) or the column is the
\* same (y); coordinates are doubled
ObservedStepsX(tiles) ==
  {tiles[t + 1].x2 - tiles[t].x2 : t \in 1..(Len(tiles) - 1)} \ {0}

ObservedStepsY(tiles) ==
  {tiles[t + 1].y2 - tiles[t].y2 :
     t \in {u \in 1..(Len(tiles) - 1) : tiles[u + 1].x2 = tiles[u].x2}}

\* C12: for a spacingX or spacingY below 20 (zero and negative included)
\* the step of the tiling loop on that axis is exactly 20, a spacing of
\* 20 or more is the step unchanged, and each axis depends on its own
\* spacing only.
C12_StepIsSpacingClampedTo20 ==
  \A i \in Procs : \A p \in DOMAIN drawn[i] :
    /\ ObservedStepsX(drawn[i][p]) \subseteq
         {2 * (IF config[i].spacingX < 20 THEN 20 ELSE config[i].spacingX)}
    /\ ObservedStepsY(drawn[i][p]) \subseteq
         {2 * (IF config[i].spacingY < 20 THEN 20 ELSE config[i].spacingY)}

\* a page has been tiled with spacingX = -5 and spacingY = 1000, and both
\* steps show: columns 20 apart, rows 1000 apart
C12_Witness ==
  \E i \in Procs : \E p \in DOMAIN drawn[i] :
    /\ config[i].spacingX = -5
    /\ config[i].spacingY = 1000
    /\ ObservedStepsX(drawn[i][p]) = {40}
    /\ ObservedStepsY(drawn[i][p]) = {2000}

\* C13: on every page all anchors lie in [-d/2, W + d/2) x [-d/2, H + d/2)
\* with d the page diagonal, the first anchor is (-d/2, -d/2), and
\* consecutive anchors differ by exactly the step of the axis: the next
\* anchor is one stepY up in the same column, or it opens the next column,
\* one stepX to the right and back at -d/2.  (Coordinates are doubled.)
C13_AnchorsCoverThePaddedPage ==
  \A i \in Procs : \A p \in DOMAIN drawn[i] :
    LET tiles == drawn[i][p]
        page  == doc[i].pages[p]
        d     == WholeDiagonal(page)
        sx    == ClampedStep(config[i].spacingX)
        sy    == ClampedStep(config[i].spacingY)
    IN /\ Len(tiles) >= 1
       /\ tiles[1].x2 = -d /\ tiles[1].y2 = -d
       /\ \A t \in DOMAIN tiles :
            /\ -d <= tiles[t].x2 /\ tiles[t].x2 < 2 * page.width + d
            /\ -d <= tiles[t].y2 /\ tiles[t].y2 < 2 * page.height + d
       /\ \A t \in 1..(Len(tiles) - 1) :
            \/ /\ tiles[t + 1].x2 = tiles[t].x2
               /\ tiles[t + 1].y2 = tiles[t].y2 + 2 * sy
            \/ /\ tiles[t + 1].x2 = tiles[t].x2 + 2 * sx
               /\ tiles[t + 1].y2 = -d
               /\ tiles[t].y2 + 2 * sy >= 2 * page.height + d

\* a landscape page tiled in several columns and rows with different steps
C13_Witness ==
  \E i \in Procs : \E p \in DOMAIN drawn[i] :
    /\ doc[i].pages[p] = PageWide
    /\ config[i].spacingX = 50 /\ config[i].spacingY = 21
    /\ Len(drawn[i][p]) = 4 * 8
    /\ drawn[i][p][1].x2 = -100 /\ drawn[i][p][9].x2 = 0
    /\ drawn[i][p][32].x2 = 200 /\ drawn[i][p][32].y2 = 194

\* C14: the number of tiles on a page is
\* ceil((W + d) / stepX) * ceil((H + d) / stepY).
C14_TileCount ==
  \A i \in Procs : \A p \in DOMAIN drawn[i] :
    Len(drawn[i][p]) =
      CeilDiv(doc[i].pages[p].width + WholeDiagonal(doc[i].pages[p]),
              ClampedStep(config[i].spacingX))
      * CeilDiv(doc[i].pages[p].height + WholeDiagonal(doc[i].pages[p]),
                ClampedStep(config[i].spacingY))

\* a page whose padded width and height are whole multiples of the steps:
\* 1600 / 20 columns and 1800 / 50 rows, none more
C14_Witness ==
  \E i \in Procs : \E p \in DOMAIN drawn[i] :
    /\ doc[i].pages[p] = PageLarge
    /\ config[i].spacingX = 19 /\ config[i].spacingY = 50
    /\ Len(drawn[i][p]) = 80 * 36

\* six hexadecimal digits in either case, with or without a leading '#'
SixHexDigits(hex) ==
  \/ Len(hex) = 6 /\ \A k \in 1..6 : hex[k] \in HexChars
  \/ Len(hex) = 7 /\ hex[1] = "#" /\ \A k \in 2..7 : hex[k] \in HexChars

\* the value of a hexadecimal digit
DigitValue(ch) ==
  CASE ch \in {"0"} -> 0  [] ch \in {"1"} -> 1  [] ch \in {"2"} -> 2
    [] ch \in {"3"} -> 3  [] ch \in {"4"} -> 4  [] ch \in {"5"} -> 5
    [] ch \in {"6"} -> 6  [] ch \in {"7"} -> 7  [] ch \in {"8"} -> 8
    [] ch \in {"9"} -> 9
    [] ch \in {"a", "A"} -> 10  [] ch \in {"b", "B"} -> 11
    [] ch \in {"c", "C"} -> 12  [] ch \in {"d", "D"} -> 13
    [] ch \in {"e", "E"} -> 14  [] ch \in {"f", "F"} -> 15

\* the value of the n-th pair of digits of a colour string
PairValue(hex, n) ==
  LET off == IF Len(hex) = 7 THEN 1 ELSE 0
  IN 16 * DigitValue(hex[off + 2 * n - 1]) + DigitValue(hex[off + 2 * n])

\* channel * 255 = v, for a channel kept as num/den
TimesIs(ch, k, v) == ch.num * k = v * ch.den

InUnitInterval(ch) == ch.den > 0 /\ 0 <= ch.num /\ ch.num <= ch.den

\* C15: for a colour of exactly six hex digits, in either case, with or
\* without '#', hexToRgb gives three channels in [0,1], and each channel
\* times 255 is the value of its pair of digits.
C15_HexColorRoundTrip ==
  \A i \in Procs : \A p \in DOMAIN drawn[i] : \A t \in DOMAIN drawn[i][p] :
    SixHexDigits(config[i].color) =>
      LET c == drawn[i][p][t].color
      IN /\ InUnitInterval(c.r) /\ InUnitInterval(c.g) /\ InUnitInterval(c.b)
         /\ TimesIs(c.r, 255, PairValue(config[i].color, 1))
         /\ TimesIs(c.g, 255, PairValue(config[i].color, 2))
         /\ TimesIs(c.b, 255, PairValue(config[i].color, 3))

\* "Cf" "fC" "CC" without '#', mixed case, has been drawn as 207, 252, 204
C15_Witness ==
  \E i \in Procs : \E p \in DOMAIN drawn[i] : \E t \in DOMAIN drawn[i][p] :
    /\ config[i].color = <<"C", "f", "f", "C", "C", "C">>
    /\ drawn[i][p][t].color.r = [num |-> 207, den |-> 255]
    /\ drawn[i][p][t].color.g = [num |-> 252, den |-> 255]
    /\ drawn[i][p][t].color.b = [num |-> 204, den |-> 255]

\* C16: for a colour that is not six hex digits with an optional '#',
\* hexToRgb gives (0.8, 0.8, 0.8), and the invocation goes on as with a
\* valid colour: every page is drawn, in the fallback colour, what it
\* returns holds these tiles, and it fails only where an invocation with a
\* valid colour fails too (embed, drawText, save).
C16_MalformedColorFallsBack ==
  \A i \in Procs :
    ~SixHexDigits(config[i].color) =>
      /\ \A p \in DOMAIN drawn[i] : \A t \in DOMAIN drawn[i][p] :
           LET c == drawn[i][p][t].color
           IN /\ TimesIs(c.r, 10, 8) /\ TimesIs(c.g, 10, 8) /\ TimesIs(c.b, 10, 8)
      /\ pc[i] \in {"save", "done"} =>
           /\ Len(drawn[i]) = Len(doc[i].pages)
           /\ \A p \in DOMAIN drawn[i] : Len(drawn[i][p]) >= 1
      /\ pc[i] = "done" => result[i].kind = "pdf" /\ result[i].pages = drawn[i]
      /\ pc[i] = "failed" => err[i] \in {MsgLibEmbed, MsgLibDraw, MsgLibSave}

\* the three-digit shorthand "#FFF" has been drawn in the fallback colour
\* and saved
C16_Witness ==
  \E i \in Procs :
    /\ config[i].color = <<"#", "F", "F", "F">>
    /\ pc[i] = "done"
    /\ result[i].pages = drawn[i]
    /\ drawn[i][1][1].color.r = [num |-> 8, den |-> 10]

\* the phase messages an invocation has given so far, read off what it has
\* done: the download start and one attempt message per source fetched,
\* the embed message once embedFont was called, the application message
\* once the font is there, the finalize message once the pages are drawn
PhaseMessages(i) ==
  (IF fetched[i] # <<>>
     THEN <<StDownloading>> \o [k \in 1..Len(fetched[i]) |-> StTrying]
     ELSE <<>>)
  \o (IF embedArg[i] = NULL THEN <<>>
      ELSE IF embedArg[i] = HelveticaBold THEN <<StStandard>>
      ELSE <<StEmbedding>>)
  \o (IF font[i] # NULL THEN <<StApplying>> ELSE <<>>)
  \o (IF drawn[i] # <<>> THEN <<StFinalizing>> ELSE <<>>)

SawFilledCache(i) == cacheSeen[i] \notin {Unread, NULL}

\* C17: the status callback gets the phase messages in the order download
\* start (once), one source-attempt message before each source attempt,
\* font embed, watermark application, finalize; with a filled cache it gets
\* no download message; and it gets no message after the invocation has
\* returned or failed.
C17_PhaseMessagesInOrder ==
  /\ [](\A i \in Procs :
          /\ status[i] = PhaseMessages(i)
          /\ pc[i] = "done" /\ fetched[i] # <<>> =>
               status[i] = <<StDownloading>>
                           \o [k \in 1..Len(fetched[i]) |-> StTrying]
                           \o <<StEmbedding, StApplying, StFinalizing>>
          /\ SawFilledCache(i) =>
               \A n \in DOMAIN status[i] :
                 status[i][n] \notin {StDownloading, StTrying})
  /\ [][\A i \in Procs :
          pc[i] \in {"done", "failed"} => status'[i] = status[i]]_vars

\* one invocation has returned after a download that took two attempts,
\* another one has returned after finding the cache filled
C17_Witness ==
  \E i \in Procs, j \in Procs :
    /\ pc[i] = "done"
    /\ fetched[i] = <<1, 2>>
    /\ status[i] = <<StDownloading, StTrying, StTrying, StEmbedding,
                     StApplying, StFinalizing>>
    /\ pc[j] = "done"
    /\ SawFilledCache(j)
    /\ status[j] = <<StEmbedding, StApplying, StFinalizing>>

\* invocation i failed because the embed of downloaded font bytes rejected
FetchedFontEmbedFailed(i) ==
  /\ pc[i] = "failed"
  /\ embedArg[i] \notin {NULL, HelveticaBold}
  /\ font[i] = NULL

\* invocation j failed on an invalid or encrypted document, on the font
\* download, or in save
FailedElsewhere(j) ==
  /\ pc[j] = "failed"
  /\ \/ embedArg[j] = NULL
     \/ drawn[j] # <<>>

\* C18: the error of an invocation that failed in the embed of the fetched
\* font bytes differs from the error of every invocation that failed for
\* invalid input, encrypted input, unavailable font or in save, so a caller
\* can tell it apart.
C18_EmbedFailureIsDistinguishable ==
  \A i \in Procs, j \in Procs :
    FetchedFontEmbedFailed(i) /\ FailedElsewhere(j) => err[i] # err[j]

\* the sources invocation i has fetched are the first ones of the list,
\* each once, in order
EachSourceAtMostOnce(i) ==
  /\ Len(fetched[i]) <= NumFontSources
  /\ \A k \in DOMAIN fetched[i] : fetched[i][k] = k

\* C19: every invocation made ends, returning or failing, provided each
\* load, fetch, body read, embed and save settles; it attempts no font
\* source more than once; and the tiling loops end for every spacing, the
\* step being at least 20: a page gets no more tiles than steps of 20 fit
\* into its padded width and height.
C19_EveryInvocationEnds ==
  /\ [](\A i \in Procs : EachSourceAtMostOnce(i))
  /\ [](\A i \in Procs : \A p \in DOMAIN drawn[i] :
          Len(drawn[i][p]) <=
            CeilDiv(doc[i].pages[p].width + WholeDiagonal(doc[i].pages[p]), 20)
            * CeilDiv(doc[i].pages[p].height + WholeDiagonal(doc[i].pages[p]), 20))
  /\ \A i \in Procs : (pc[i] # "idle") ~> (pc[i] \in {"done", "failed"})

\* an invocation has ended after going through the whole source list, with
\* spacings below 20 it has drawn its pages
C19_Witness ==
  \E i \in Procs :
    /\ pc[i] = "done"
    /\ fetched[i] = <<1, 2, 3>>
    /\ config[i].spacingX < 20
    /\ HasDrawn(i)

\* the anchors of the drawText calls of a page, in order
DrawnAnchors(tiles) ==
  [t \in DOMAIN tiles |-> [x2 |-> tiles[t].x2, y2 |-> tiles[t].y2]]

\* C20: for a 595x842 page and the spacings the preview was computed from,
\* the marks of previewWatermarks are the anchors at which applyWatermark
\* draws the tiles of the page, the same values in the same order.
C20_PreviewLatticeIsDrawnLattice ==
  \A i \in Procs : \A p \in DOMAIN drawn[i] :
    /\ doc[i].pages[p] = [width |-> 595, height |-> 842]
    /\ config[i].spacingX = appConfig.spacingX
    /\ config[i].spacingY = appConfig.spacingY
    => DrawnAnchors(drawn[i][p]) = previewMarks

\* a page has been drawn with spacings -5 and 250, several columns and
\* rows, while the preview is rendered from the same spacings
C20_Witness ==
  \E i \in Procs :
    /\ appConfig = [spacingX |-> -5, spacingY |-> 250]
    /\ config[i].spacingX = -5 /\ config[i].spacingY = 250
    /\ doc[i].pages = <<[width |-> 595, height |-> 842]>>
    /\ Len(drawn[i]) = 1
    /\ Len(drawn[i][1]) = 82 * 8
    /\ Len(previewMarks) = 82 * 8

\* the number of drawText calls on each page of what invocation i returned
TilesPerPage(i) == [p \in DOMAIN result[i].pages |-> Len(result[i].pages[p])]

\* C21: two successful runs with the same input bytes and the same
\* configuration draw the same number of tiles on every page, whatever the
\* font cache held at their start; and two pages of the same size tiled
\* with the same effective steps get the same number of tiles, whatever the
\* text, colour, opacity, font size, rotation and cache state of the runs.
C21_TileCountIsDeterministic ==
  \A i \in Procs, j \in Procs :
    pc[i] = "done" /\ pc[j] = "done" =>
      /\ doc[i] = doc[j] /\ config[i] = config[j] =>
           TilesPerPage(i) = TilesPerPage(j)
      /\ \A p \in DOMAIN drawn[i], q \in DOMAIN drawn[j] :
           /\ doc[i].pages[p] = doc[j].pages[q]
           /\ ClampedStep(config[i].spacingX) = ClampedStep(config[j].spacingX)
           /\ ClampedStep(config[i].spacingY) = ClampedStep(config[j].spacingY)
           => Len(drawn[i][p]) = Len(drawn[j][q])

\* the same document and configuration, with non-Latin text, have been
\* run twice with success: the first run found the cache empty and
\* downloaded the font, the second found it filled
C21_Witness ==
  /\ pc[1] = "done" /\ pc[2] = "done"
  /\ doc[1] = DocTwoPages /\ doc[2] = doc[1]
  /\ config[1].text = TextMixed /\ config[1].spacingX = 19
  /\ config[2] = config[1]
  /\ cacheSeen[1] = NULL /\ fetched[1] # <<>>
  /\ SawFilledCache(2) /\ fetched[2] = <<>>
  /\ TilesPerPage(1) = TilesPerPage(2)
  /\ Len(TilesPerPage(1)) = 2 /\ TilesPerPage(1)[1] > 1

\* applyWatermark has been invoked for i and has neither returned nor thrown
InFlight(i) == pc[i] \notin {"idle", "done", "failed"}

\* C22: from the UI at most one applyWatermark invocation is in flight at
\* any time, whatever the sequence of clicks, a second click before the
\* processing flag has reached the button included; and every exit of
\* handleProcess leaves the processing flag false and the status message
\* empty.
C22_OneInvocationInFlight ==
  /\ [](\A i \in Procs, j \in Procs : InFlight(i) /\ InFlight(j) => i = j)
  /\ [][\A i \in Procs :
          hp[i] = "running" /\ hp'[i] = "exited" =>
            isProcessing' = FALSE /\ statusMessage' = ""]_vars

====
